---- MODULE Spec2Model ----
(***************************************************************************)
(* Food Tracker (src/Diet-Tracker.py): the SQLite tables basic_food,       *)
(* composite_food and daily_data, and the MainWindow handlers that read    *)
(* and write them.                                                         *)
(*                                                                         *)
(* Representation.                                                         *)
(*  - A Python str is a sequence of atoms.  An atom is an indivisible      *)
(*    piece of text; the separators "," and ";" are atoms of their own, so *)
(*    split, join and f-string concatenation are computed on the text.     *)
(*    The empty str is <<>>.                                               *)
(*  - A REAL is an exact fraction <<n, d>> with d > 0 in lowest terms      *)
(*    (the program's doubles, without their rounding).  NULL / None is     *)
(*    the empty tuple.                                                     *)
(*  - A table is the sequence of its rows in rowid order.                  *)
(***************************************************************************)
EXTENDS Integers, Sequences, FiniteSets, TLC

VARIABLES
    basic_food,      \* rows [food_name, calories_per_100g, protein_per_100g]
    composite_food,  \* rows [food_name, ingredients, calories_per_100g, protein_per_100g]
    daily_data,      \* rows [date, weight, food_consumed, exercises]
    selected_date,   \* self.selected_date, the date the main window's inputs write to
    last,            \* the handler that ran last: its inputs, locals and outcome
    nops,            \* number of handlers run so far
    table_widget,    \* the rows self.table shows
    right_ticks      \* the ticks set on the right axis of the graph (<<>>: none set)

vars == <<basic_food, composite_food, daily_data, selected_date, last, nops,
          table_widget, right_ticks>>

\* Number of commands a behaviour issues.
MaxOps == 3

-----------------------------------------------------------------------------
(* REAL arithmetic *)

NULL == <<>>

Abs(x) == IF x < 0 THEN -x ELSE x

RECURSIVE GCD(_, _)
GCD(a, b) == IF b = 0 THEN a ELSE GCD(b, a % b)

\* The fraction n/d (d # 0) in lowest terms with a positive denominator.
Real(n, d) ==
    LET s == IF d < 0 THEN -1 ELSE 1
        g == GCD(Abs(n), Abs(d))
    IN  <<(s * n) \div g, (s * d) \div g>>

Zero == <<0, 1>>
Hundred == <<100, 1>>

RAdd(x, y) == Real(x[1] * y[2] + y[1] * x[2], x[2] * y[2])
RSub(x, y) == Real(x[1] * y[2] - y[1] * x[2], x[2] * y[2])
RMul(x, y) == Real(x[1] * y[1], x[2] * y[2])
RDiv(x, y) == Real(x[1] * y[2], x[2] * y[1])
RLt(x, y)  == x[1] * y[2] < y[1] * x[2]
RLe(x, y)  == x[1] * y[2] <= y[1] * x[2]

-----------------------------------------------------------------------------
(* Text *)

COMMA == ","
SEMI  == ";"

\* str.split(sep): the pieces of text between the occurrences of sep.
RECURSIVE Split(_, _)
Split(text, sep) ==
    IF \A i \in DOMAIN text : text[i] # sep
    THEN <<text>>
    ELSE LET k == CHOOSE i \in DOMAIN text :
                      /\ text[i] = sep
                      /\ \A j \in 1..(i - 1) : text[j] # sep
         IN  <<SubSeq(text, 1, k - 1)>> \o Split(SubSeq(text, k + 1, Len(text)), sep)

\* sep.join(items)
RECURSIVE Join(_, _)
Join(items, sep) ==
    IF items = <<>> THEN <<>>
    ELSE IF Len(items) = 1 THEN items[1]
    ELSE items[1] \o <<sep>> \o Join(Tail(items), sep)

\* The numerals the model's inputs and formatted floats use, with their values.
NumVal ==
    [a \in {"0", "50", "79", "80", "100", "200", "300", "10", "20",
            "0.0", "50.0", "79.0", "80.0", "100.0", "200.0", "300.0", "10.0", "20.0",
            "-50", "-50.0", "-300", "-300.0"} |->
        CASE a \in {"0", "0.0"}     -> 0
          [] a \in {"-50", "-50.0"} -> -50
          [] a \in {"-300", "-300.0"} -> -300
          [] a \in {"10", "10.0"}   -> 10
          [] a \in {"20", "20.0"}   -> 20
          [] a \in {"50", "50.0"}   -> 50
          [] a \in {"79", "79.0"}   -> 79
          [] a \in {"80", "80.0"}   -> 80
          [] a \in {"100", "100.0"} -> 100
          [] a \in {"200", "200.0"} -> 200
          [] a \in {"300", "300.0"} -> 300]

\* float(text) succeeds (otherwise it raises ValueError).
IsFloat(text) == Len(text) = 1 /\ text[1] \in DOMAIN NumVal

\* float(text)
ToFloat(text) == Real(NumVal[text[1]], 1)

\* f"{x}" of a float x with an integral value: "100.0" for 100.0.  The numerals
\* the inputs can produce are spelled out; any other value is the text <<"%r", x>>.
FloatStr(x) ==
    CASE x = <<0, 1>>   -> <<"0.0">>
      [] x = <<10, 1>>  -> <<"10.0">>
      [] x = <<20, 1>>  -> <<"20.0">>
      [] x = <<50, 1>>  -> <<"50.0">>
      [] x = <<79, 1>>  -> <<"79.0">>
      [] x = <<80, 1>>  -> <<"80.0">>
      [] x = <<100, 1>> -> <<"100.0">>
      [] x = <<200, 1>> -> <<"200.0">>
      [] x = <<300, 1>> -> <<"300.0">>
      [] x = <<-50, 1>> -> <<"-50.0">>
      [] x = <<-300, 1>> -> <<"-300.0">>
      [] OTHER -> <<"%r", x>>

\* ';'.join([f"{name},{amount}" for name, amount in pairs]), amount a float
JoinPairs(pairs) ==
    Join([i \in DOMAIN pairs |-> pairs[i][1] \o <<COMMA>> \o FloatStr(pairs[i][2])], SEMI)

\* [tuple(item.split(',')) for item in text.split(';')]
SplitPairs(text) ==
    LET items == Split(text, SEMI)
    IN  [i \in DOMAIN items |-> Split(items[i], COMMA)]

-----------------------------------------------------------------------------
(* Food catalog: queries *)

\* SELECT calories_per_100g, protein_per_100g FROM basic_food WHERE food_name = ?
\* UNION SELECT calories_per_100g, protein_per_100g FROM composite_food
\* WHERE food_name = ?  -- the result set (UNION removes duplicate rows).
UnionRows(basic, composite, food_name) ==
    {<<basic[i].calories_per_100g, basic[i].protein_per_100g>> :
        i \in {j \in DOMAIN basic : basic[j].food_name = food_name}}
    \cup
    {<<composite[i].calories_per_100g, composite[i].protein_per_100g>> :
        i \in {j \in DOMAIN composite : composite[j].food_name = food_name}}

\* Row order of the compound SELECT: SQLite builds the UNION in a temporary
\* b-tree keyed on the result columns and returns its rows in key order.
RowLt(r, s) == RLt(r[1], s[1]) \/ (r[1] = s[1] /\ RLt(r[2], s[2]))

\* cursor.fetchone() on that query: its first row, or None.
FetchNutrition(basic, composite, food_name) ==
    LET rows == UnionRows(basic, composite, food_name)
    IN  IF rows = {} THEN NULL
        ELSE CHOOSE r \in rows : \A s \in rows : s = r \/ RowLt(r, s)

\* SELECT food_name FROM <table> WHERE food_name = ?  then fetchone() is not None
HasName(table, food_name) == \E i \in DOMAIN table : table[i].food_name = food_name

\* UPDATE <table> SET <columns of row> WHERE food_name = old
SqlUpdate(table, old, row) ==
    [i \in DOMAIN table |-> IF table[i].food_name = old THEN row ELSE table[i]]

-----------------------------------------------------------------------------
(* Food catalog: composite blending *)

\* Mutant: the average per gram, not per 100 g.
composite_per_gram(total, total_weight) == RDiv(total, total_weight)

\* (total / total_weight) * 100
composite_per_100g(total, total_weight) == RMul(RDiv(total, total_weight), Hundred)

BlendStart ==
    [ingredients |-> <<>>, total_calories |-> Zero, total_protein |-> Zero,
     total_weight |-> Zero, raised |-> FALSE]

\* One ingredient row added to the running totals.
BlendAdd(acc, ingredient_name, ingredient_quantity, calories_per_100g, protein_per_100g) ==
    [ingredients |-> Append(acc.ingredients, <<ingredient_name, ingredient_quantity>>),
     total_calories |-> RAdd(acc.total_calories,
                             RDiv(RMul(calories_per_100g, ingredient_quantity), Hundred)),
     total_protein |-> RAdd(acc.total_protein,
                            RDiv(RMul(protein_per_100g, ingredient_quantity), Hundred)),
     total_weight |-> RAdd(acc.total_weight, ingredient_quantity),
     raised |-> FALSE]

\* Mutant: an ingredient that is a composite is replaced by its own ingredient
\* list, each of those read in turn.
BlendStepExpanding(basic, composite, row, acc) ==
    LET own == IF HasName(composite, row[1]) /\ row[2] # <<>>
               THEN SplitPairs(composite[CHOOSE i \in DOMAIN composite :
                                             composite[i].food_name = row[1]].ingredients)
               ELSE <<>>
        RECURSIVE Expand(_, _)
        Expand(pairs, a) ==
            IF pairs = <<>> THEN a
            ELSE LET food_data == FetchNutrition(basic, composite, pairs[1][1])
                 IN  Expand(Tail(pairs),
                            IF food_data # NULL
                            THEN BlendAdd(a, pairs[1][1], ToFloat(pairs[1][2]),
                                          food_data[1], food_data[2])
                            ELSE a)
        food_data == FetchNutrition(basic, composite, row[1])
    IN  IF own # <<>> THEN Expand(own, acc)
        ELSE IF row[1] # <<>> /\ row[2] # <<>> /\ food_data # NULL
        THEN BlendAdd(acc, row[1], ToFloat(row[2]), food_data[1], food_data[2])
        ELSE acc

\* The body of the loop over self.composite_ingredient_rows, for one row
\* <<name text, quantity text>>.  raised: float(quantity) raised ValueError.
BlendStep(basic, composite, row, acc) ==
    LET ingredient_name == row[1]
        quantity == row[2]
        food_data == FetchNutrition(basic, composite, ingredient_name)
    IN  IF ingredient_name # <<>> /\ quantity # <<>> /\ food_data # NULL
        THEN IF ~IsFloat(quantity)
             THEN [acc EXCEPT !.raised = TRUE]
             ELSE BlendAdd(acc, ingredient_name, ToFloat(quantity),
                           food_data[1], food_data[2])
        ELSE acc

\* The loop: the rows in order, until one raises.
RECURSIVE BlendLoop(_, _, _, _)
BlendLoop(basic, composite, rows, acc) ==
    IF rows = <<>> \/ acc.raised THEN acc
    ELSE BlendLoop(basic, composite, Tail(rows), BlendStep(basic, composite, rows[1], acc))

\* The composite_food row built from the loop's totals (total_weight > 0).
CompositeRow(name, b) ==
    [food_name |-> name,
     ingredients |-> JoinPairs(b.ingredients),
     calories_per_100g |-> composite_per_100g(b.total_calories, b.total_weight),
     protein_per_100g |-> composite_per_100g(b.total_protein, b.total_weight)]

-----------------------------------------------------------------------------
(* Inputs *)

FoodA == <<"A">>
FoodB == <<"B">>
FoodNames == {FoodA, FoodB}

\* What the user may type in a name field.
NameTexts == FoodNames \cup {<<>>}

\* What the user may type in the calories and protein fields of the basic form.
NutritionTexts ==
    {<<<<"100">>, <<"20">>>>, <<<<"200">>, <<"10">>>>, <<<<>>, <<"10">>>>}

\* What the user may fill in the ingredient rows of the composite form.
IngredientForms ==
    {<<>>,
     <<<<FoodA, <<"100">>>>>>,
     <<<<FoodB, <<"0">>>>>>,
     <<<<FoodA, <<"100">>>>, <<FoodB, <<"300">>>>>>,
     <<<<FoodA, <<>>>>, <<FoodB, <<"100">>>>>>}

\* The calendar days of the model, in ISO form (text order is date order).
DayOrder == <<"2024-01-01", "2024-01-02", "2024-01-03">>
Dates == {DayOrder[i] : i \in DOMAIN DayOrder}
DayIndex(date) == CHOOSE i \in DOMAIN DayOrder : DayOrder[i] = date

\* QDate.currentDate() when the window is built.
Today == "2024-01-02"

\* What the user may type in the weight field.
WeightTexts == {<<>>, <<"80">>, <<"0">>}

\* What the food dropdown (editable) and the quantity field may hold.
QuantityTexts == {<<>>, <<"100">>}

\* What the exercise dropdown and its calories field may hold.
ExerciseNames == {<<"Cycling">>}
CaloriesTexts == {<<>>, <<"300">>}

\* The longest list of entries serialized on its own.
MaxEntries == 2

\* The (name, value) pairs such a list is made of; two of the names and one of
\* the values contain a separator.
EntryPairs ==
    {<<n, v>> : n \in {FoodA, FoodB, <<"A", SEMI, "B">>, <<"A", COMMA, "B">>},
                v \in {<<"100.0">>, <<"1", COMMA, "5">>}}

RECURSIVE ListsUpTo(_, _)
ListsUpTo(S, n) ==
    IF n = 0 THEN {<<>>}
    ELSE ListsUpTo(S, n - 1)
         \cup {Append(l, x) : l \in {m \in ListsUpTo(S, n - 1) : Len(m) = n - 1}, x \in S}

EntryLists == ListsUpTo(EntryPairs, MaxEntries)

\* What the user may leave in the edit-date form: the weight field, the food rows
\* and the exercise rows (as texts).
DateForms ==
    {[weight |-> <<>>, food_rows |-> <<>>, exercise_rows |-> <<>>],
     [weight |-> <<"79">>, food_rows |-> <<>>, exercise_rows |-> <<>>],
     [weight |-> <<"80.0">>,
      food_rows |-> <<<<FoodA, <<"100.0">>>>, <<FoodB, <<>>>>, <<FoodA, <<"50">>>>>>,
      exercise_rows |-> <<<<<<"Cycling">>, <<"300.0">>>>>>]}

\* Two more forms: one with an amount typed with a decimal comma, and one that
\* leaves only an exercise.
TypedForms ==
    {[weight |-> <<>>,
      food_rows |-> <<<<FoodA, <<"1", COMMA, "5">>>>>>,
      exercise_rows |-> <<>>],
     [weight |-> <<>>,
      food_rows |-> <<>>,
      exercise_rows |-> <<<<<<"Cycling">>, <<"300">>>>>>]}

\* Values typed with a sign.
SignedNutritionTexts == {<<<<"100">>, <<"20">>>>, <<<<"-50">>, <<"20">>>>}
SignedQuantityTexts == {<<"100">>, <<"-50">>}
SignedCaloriesTexts == {<<"300">>, <<"-300">>}

-----------------------------------------------------------------------------
(* Handlers of the food forms *)

\* The record kept of the handler that ran last.  again: the handler repeats the
\* previous one, which wrote, with the same date and text.  had_entries: the date
\* written had food entries stored before.  loaded: the list load_daily_data
\* returned.
LastOf(op) ==
    [op |-> op, name |-> <<>>, old |-> <<>>, rows |-> <<>>, exercise_rows |-> <<>>,
     date |-> "", text |-> <<>>, wrote |-> FALSE, accepted |-> FALSE,
     total_weight |-> Zero, again |-> FALSE, had_entries |-> FALSE, loaded |-> <<>>]

\* save_basic_food: the "Save" button of the New Basic Food form.
save_basic_food(food_name, calories, protein) ==
    LET empty == food_name = <<>> \/ calories = <<>> \/ protein = <<>>
        ok    == ~empty /\ IsFloat(calories) /\ IsFloat(protein)
    IN  /\ nops < MaxOps
        /\ basic_food' =
             IF ok
             THEN Append(basic_food,
                         [food_name |-> food_name,
                          calories_per_100g |-> ToFloat(calories),
                          protein_per_100g |-> ToFloat(protein)])
             ELSE basic_food
        /\ UNCHANGED <<composite_food, daily_data, selected_date, table_widget, right_ticks>>
        /\ last' = [LastOf("save_basic_food") EXCEPT
                       !.name = food_name, !.wrote = ok, !.accepted = ok]
        /\ nops' = nops + 1

\* Mutant: the edit of a basic food is propagated to the composites that list it.
update_basic_food_tables_live(new_food_name, calories, protein, old_food_name) ==
    LET nb == SqlUpdate(basic_food, old_food_name,
                        [food_name |-> new_food_name,
                         calories_per_100g |-> ToFloat(calories),
                         protein_per_100g |-> ToFloat(protein)])
        reblend(row) ==
            LET b == BlendLoop(nb, composite_food, SplitPairs(row.ingredients), BlendStart)
            IN  IF RLt(Zero, b.total_weight) THEN CompositeRow(row.food_name, b) ELSE row
    IN  <<nb, [i \in DOMAIN composite_food |-> reblend(composite_food[i])]>>

\* The tables <<basic_food, composite_food>> after update_basic_food's UPDATE.
update_basic_food_tables(new_food_name, calories, protein, old_food_name) ==
    <<SqlUpdate(basic_food, old_food_name,
                [food_name |-> new_food_name,
                 calories_per_100g |-> ToFloat(calories),
                 protein_per_100g |-> ToFloat(protein)]),
      composite_food>>

\* update_basic_food: the "Save" button of the Edit Basic Food form, which
\* load_food_for_edit opens for a name found in basic_food.
update_basic_food(new_food_name, calories, protein, old_food_name) ==
    LET filled == new_food_name # <<>> /\ calories # <<>> /\ protein # <<>>
        existing_food == HasName(basic_food, new_food_name)
        ok == /\ filled
              /\ ~existing_food \/ new_food_name = old_food_name
              /\ IsFloat(calories) /\ IsFloat(protein)
        t  == update_basic_food_tables(new_food_name, calories, protein, old_food_name)
    IN  /\ nops < MaxOps
        /\ HasName(basic_food, old_food_name)
        /\ basic_food' = IF ok THEN t[1] ELSE basic_food
        /\ composite_food' = IF ok THEN t[2] ELSE composite_food
        /\ UNCHANGED <<daily_data, selected_date, table_widget, right_ticks>>
        /\ last' = [LastOf("update_basic_food") EXCEPT
                       !.name = new_food_name, !.old = old_food_name,
                       !.wrote = ok, !.accepted = ok]
        /\ nops' = nops + 1

\* Mutant: the row is inserted whatever the total weight (an average of 0 when
\* there is nothing to divide by).
save_composite_insert_unguarded(composite_name, b) ==
    Append(composite_food,
           IF RLt(Zero, b.total_weight) THEN CompositeRow(composite_name, b)
           ELSE [food_name |-> composite_name,
                 ingredients |-> JoinPairs(b.ingredients),
                 calories_per_100g |-> Zero,
                 protein_per_100g |-> Zero])

\* The composite_food table after save_composite_food's "if total_weight > 0: INSERT".
save_composite_insert(composite_name, b) ==
    IF RLt(Zero, b.total_weight)
    THEN Append(composite_food, CompositeRow(composite_name, b))
    ELSE composite_food

\* save_composite_food: the "Save" button of the New Composite Food form.
save_composite_food(composite_name, rows) ==
    LET b    == BlendLoop(basic_food, composite_food, rows, BlendStart)
        runs == composite_name # <<>> /\ ~b.raised
    IN  /\ nops < MaxOps
        /\ composite_food' =
             IF runs THEN save_composite_insert(composite_name, b) ELSE composite_food
        /\ UNCHANGED <<basic_food, daily_data, selected_date, table_widget, right_ticks>>
        /\ last' = [LastOf("save_composite_food") EXCEPT
                       !.name = composite_name, !.rows = rows,
                       !.wrote = runs /\ RLt(Zero, b.total_weight),
                       !.accepted = runs,
                       !.total_weight = b.total_weight]
        /\ nops' = nops + 1

\* The composite_food table after update_composite_food's UPDATE.
update_composite_rows(new_composite_name, b, old_composite_name) ==
    SqlUpdate(composite_food, old_composite_name, CompositeRow(new_composite_name, b))

\* update_composite_food: the "Save" button of the Edit Composite Food form, which
\* load_food_for_edit opens for a name found in composite_food and not in basic_food.
update_composite_food(new_composite_name, rows, old_composite_name) ==
    LET b  == BlendLoop(basic_food, composite_food, rows, BlendStart)
        existing_food == HasName(composite_food, new_composite_name)
        ok == /\ ~b.raised
              /\ RLt(Zero, b.total_weight)
              /\ ~existing_food \/ new_composite_name = old_composite_name
    IN  /\ nops < MaxOps
        /\ ~HasName(basic_food, old_composite_name)
        /\ HasName(composite_food, old_composite_name)
        /\ composite_food' =
             IF ok THEN update_composite_rows(new_composite_name, b, old_composite_name)
             ELSE composite_food
        /\ UNCHANGED <<basic_food, daily_data, selected_date, table_widget, right_ticks>>
        /\ last' = [LastOf("update_composite_food") EXCEPT
                       !.name = new_composite_name, !.old = old_composite_name,
                       !.rows = rows, !.wrote = ok, !.accepted = ok,
                       !.total_weight = b.total_weight]
        /\ nops' = nops + 1

-----------------------------------------------------------------------------
(* Daily records *)

\* Mutant: the SELECT finds no row.
FetchDayNone(table, date) == NULL

\* SELECT ... FROM daily_data WHERE date = ?  then fetchone(): the row, or None.
FetchDay(table, date) ==
    IF \E i \in DOMAIN table : table[i].date = date
    THEN table[CHOOSE i \in DOMAIN table :
                   /\ table[i].date = date
                   /\ \A j \in 1..(i - 1) : table[j].date # date]
    ELSE NULL

\* Mutant: a plain INSERT into a table without the UNIQUE constraint.
InsertOnly(table, row) == Append(table, row)

\* INSERT OR REPLACE INTO daily_data (date UNIQUE): the rows that conflict on date
\* are deleted and the new row is inserted with a fresh rowid.
InsertOrReplace(table, row) ==
    SelectSeq(table, LAMBDA r : r.date # row.date) \o <<row>>

-----------------------------------------------------------------------------
(* History table *)

\* Goal = 80, the goal weight.
Goal == 80

\* The text "N/A".
NA == <<"N/A">>

\* round(x) to the nearest integer, ties to the even one (what "%.Nf" does).
RoundHalfEven(x) ==
    LET q == x[1] \div x[2]
        r == x[1] - q * x[2]
    IN  IF 2 * r < x[2] THEN q
        ELSE IF 2 * r > x[2] THEN q + 1
        ELSE IF q % 2 = 0 THEN q ELSE q + 1

\* f"{x:.0f}": the numeral is kept as the integer it writes.
Fmt0(x) == <<"%.0f", RoundHalfEven(x)>>

\* f"{x:.2f}": the numeral is kept as the number of hundredths it writes.
Fmt2(x) == <<"%.2f", RoundHalfEven(RMul(x, Hundred))>>

\* A stored list field as load_daily_data and calculate_daily_totals read it:
\* [] for "", otherwise the tuples of the items (of any length).
ParseField(text) == IF text # <<>> THEN SplitPairs(text) ELSE <<>>

\* load_daily_data(date): (weight, food_list, exercise_list) of the date's row.
load_daily_data(table, date) ==
    LET data == FetchDay(table, date)
    IN  IF data # NULL
        THEN <<data.weight, ParseField(data.food_consumed), ParseField(data.exercises)>>
        ELSE <<NULL, <<>>, <<>>>>

AggregateStart ==
    [total_calories_in |-> Zero, total_protein |-> Zero, total_calories_out |-> Zero,
     raised |-> FALSE]

\* Mutant: an entry whose name matches no food ends the loop over the day's foods.
FoodEntryStopsAtUnresolved(basic, composite, item, acc) ==
    IF Len(item) # 2 \/ ~IsFloat(item[2]) \/ FetchNutrition(basic, composite, item[1]) = NULL
    THEN [acc EXCEPT !.raised = TRUE]
    ELSE LET food_data == FetchNutrition(basic, composite, item[1])
         IN  [acc EXCEPT
                !.total_calories_in = RAdd(@, RDiv(RMul(food_data[1], ToFloat(item[2])), Hundred)),
                !.total_protein = RAdd(@, RDiv(RMul(food_data[2], ToFloat(item[2])), Hundred))]

\* The body of "for food_name, amount in foods" for one item: the unpacking of an
\* item that is not a pair raises ValueError, and so does float(amount).
FoodEntry(basic, composite, item, acc) ==
    IF Len(item) # 2 THEN [acc EXCEPT !.raised = TRUE]
    ELSE IF ~IsFloat(item[2]) THEN [acc EXCEPT !.raised = TRUE]
    ELSE LET amount_in_grams == ToFloat(item[2])
             food_data == FetchNutrition(basic, composite, item[1])
         IN  IF food_data # NULL
             THEN [acc EXCEPT
                     !.total_calories_in =
                         RAdd(@, RDiv(RMul(food_data[1], amount_in_grams), Hundred)),
                     !.total_protein =
                         RAdd(@, RDiv(RMul(food_data[2], amount_in_grams), Hundred))]
             ELSE acc

RECURSIVE FoodLoop(_, _, _, _)
FoodLoop(basic, composite, foods, acc) ==
    IF foods = <<>> \/ acc.raised THEN acc
    ELSE FoodLoop(basic, composite, Tail(foods), FoodEntry(basic, composite, foods[1], acc))

\* Mutant: an exercise entry replaces the total instead of adding to it.
ExerciseEntryReplacing(item, acc) ==
    IF Len(item) # 2 \/ ~IsFloat(item[2]) THEN [acc EXCEPT !.raised = TRUE]
    ELSE [acc EXCEPT !.total_calories_out = ToFloat(item[2])]

\* The body of "for exercise, calories in exercise_list" for one item.
ExerciseEntry(item, acc) ==
    IF Len(item) # 2 THEN [acc EXCEPT !.raised = TRUE]
    ELSE IF ~IsFloat(item[2]) THEN [acc EXCEPT !.raised = TRUE]
    ELSE [acc EXCEPT !.total_calories_out = RAdd(@, ToFloat(item[2]))]

RECURSIVE ExerciseLoop(_, _)
ExerciseLoop(exercise_list, acc) ==
    IF exercise_list = <<>> \/ acc.raised THEN acc
    ELSE ExerciseLoop(Tail(exercise_list), ExerciseEntry(exercise_list[1], acc))

\* The totals calculate_daily_totals computes for one record (raised: an exception
\* left the loops).
aggregate_day(basic, composite, row) ==
    ExerciseLoop(ParseField(row.exercises),
                 FoodLoop(basic, composite, ParseField(row.food_consumed), AggregateStart))

\* SELECT ... FROM daily_data ORDER BY date ASC
OrderByDate(table) ==
    LET RECURSIVE from(_)
        from(i) == IF i > Len(DayOrder) THEN <<>>
                   ELSE SelectSeq(table, LAMBDA r : r.date = DayOrder[i]) \o from(i + 1)
    IN  from(1)

\* Mutant: previous_weight keeps the last weight seen when a record has none.
next_previous_weight_carried(previous_weight, weight) ==
    IF weight # NULL THEN weight ELSE previous_weight

\* previous_weight = weight, at the end of the loop body
next_previous_weight(previous_weight, weight) == weight

\* The table row of one record.
HistoryRow(row, totals, previous_weight) ==
    [date |-> row.date,
     weight |-> IF row.weight # NULL THEN FloatStr(row.weight) ELSE NA,
     calories_in |-> Fmt0(totals.total_calories_in),
     calories_out |-> Fmt0(totals.total_calories_out),
     protein |-> Fmt0(totals.total_protein),
     prior_diff |-> IF row.weight # NULL /\ previous_weight # NULL
                    THEN Fmt2(RSub(row.weight, previous_weight)) ELSE NA,
     goal_diff |-> IF row.weight # NULL THEN Fmt2(RSub(row.weight, Real(Goal, 1))) ELSE NA]

\* The loop over the records, oldest first.
RECURSIVE HistoryLoop(_, _, _, _, _)
HistoryLoop(basic, composite, records, previous_weight, acc) ==
    IF records = <<>> \/ acc.raised THEN acc
    ELSE LET row == records[1]
             totals == aggregate_day(basic, composite, row)
         IN  IF totals.raised THEN [acc EXCEPT !.raised = TRUE]
             ELSE HistoryLoop(basic, composite, Tail(records),
                              next_previous_weight(previous_weight, row.weight),
                              [acc EXCEPT !.table_data =
                                  Append(@, HistoryRow(row, totals, previous_weight))])

\* Mutant: the rows are returned in the order they were computed.
KeepOrder(xs) == xs

\* table_data[::-1]
Reverse(xs) == [i \in DOMAIN xs |-> xs[Len(xs) + 1 - i]]

\* calculate_daily_totals(): the rows newest first, or raised.
calculate_daily_totals(basic, composite, table) ==
    LET r == HistoryLoop(basic, composite, OrderByDate(table), NULL,
                         [table_data |-> <<>>, raised |-> FALSE])
    IN  [r EXCEPT !.table_data = Reverse(@)]

-----------------------------------------------------------------------------
(* Table and graph widgets *)

\* float(item.text()) of a table cell that is not "N/A".
CellValue(cell) ==
    IF Len(cell) = 2
    THEN IF cell[1] = "%r" THEN cell[2] ELSE Real(cell[2], 1)
    ELSE ToFloat(cell)

RECURSIVE MaxOf(_)
MaxOf(xs) ==
    IF Len(xs) = 1 THEN xs[1]
    ELSE LET m == MaxOf(Tail(xs)) IN IF RLt(xs[1], m) THEN m ELSE xs[1]

\* max([w for w in weights if w is not None]) if weights else 0
\* (max() of an empty list raises ValueError).
max_weight_of(weights) ==
    LET present == SelectSeq(weights, LAMBDA w : w # NULL)
    IN  IF weights = <<>> THEN [raised |-> FALSE, value |-> Zero]
        ELSE IF present = <<>> THEN [raised |-> TRUE, value |-> Zero]
        ELSE [raised |-> FALSE, value |-> MaxOf(present)]

\* max(max(calories_in), max(calories_out)) if calories_in and calories_out else 0
max_calories_of(calories_in, calories_out) ==
    IF calories_in # <<>> /\ calories_out # <<>>
    THEN MaxOf(<<MaxOf(calories_in), MaxOf(calories_out)>>)
    ELSE Zero

\* Mutant: the factor is the inverse ratio.
normalization_factor_inverse(max_weight, max_calories) ==
    IF RLt(Zero, max_calories) /\ max_weight # Zero
    THEN RDiv(max_calories, max_weight) ELSE <<1, 1>>

\* self.max_weight / self.max_calories if self.max_calories > 0 else 1
normalization_factor_of(max_weight, max_calories) ==
    IF RLt(Zero, max_calories) THEN RDiv(max_weight, max_calories) ELSE <<1, 1>>

\* The normalization of update_graph for the three series.
compute_normalization(weights, calories_in, calories_out) ==
    LET mw == max_weight_of(weights)
        max_calories == max_calories_of(calories_in, calories_out)
        normalization_factor == normalization_factor_of(mw.value, max_calories)
    IN  [raised |-> mw.raised,
         max_weight |-> mw.value,
         max_calories |-> max_calories,
         normalization_factor |-> normalization_factor,
         normalized_calories_in |->
             [i \in DOMAIN calories_in |-> RMul(calories_in[i], normalization_factor)],
         normalized_calories_out |->
             [i \in DOMAIN calories_out |-> RMul(calories_out[i], normalization_factor)]]

\* The series update_graph reads from the rows of the table, reversed.
GraphWeights(shown) ==
    Reverse([i \in DOMAIN shown |->
                IF shown[i].weight # NA THEN CellValue(shown[i].weight) ELSE NULL])
GraphCaloriesIn(shown) ==
    Reverse([i \in DOMAIN shown |-> CellValue(shown[i].calories_in)])
GraphCaloriesOut(shown) ==
    Reverse([i \in DOMAIN shown |-> CellValue(shown[i].calories_out)])

\* int(x): the integer part of a real, truncated toward zero.
TruncInt(x) == IF x[1] >= 0 THEN x[1] \div x[2] ELSE -((-x[1]) \div x[2])

\* str(n) of an integer, as its characters.
RECURSIVE DigitsOf(_)
DigitsOf(n) ==
    LET d == <<"0", "1", "2", "3", "4", "5", "6", "7", "8", "9">>[(n % 10) + 1]
    IN  IF n < 10 THEN <<d>> ELSE Append(DigitsOf(n \div 10), d)

IntStr(n) == IF n < 0 THEN <<"-">> \o DigitsOf(-n) ELSE DigitsOf(n)

\* range(first, stop + 1, 100)
RECURSIVE RangeBy100(_, _)
RangeBy100(first, stop) ==
    IF first > stop THEN <<>> ELSE <<first>> \o RangeBy100(first + 100, stop)

\* _generate_right_axis_ticks: the (position, label) pairs of the right axis.
generate_right_axis_ticks(left_range, normalization_factor) ==
    LET left_min   == left_range[1]
        left_max   == left_range[2]
        right_min  == (TruncInt(RDiv(left_min, normalization_factor)) \div 100) * 100
        right_max  == (TruncInt(RDiv(left_max, normalization_factor)) \div 100 + 1) * 100
        values     == RangeBy100(right_min, right_max)
    IN  [k \in DOMAIN values |->
            <<RMul(<<values[k], 1>>, normalization_factor), IntStr(values[k])>>]

\* viewRange()[1] after setYRange(0, self.max_weight * 1.1, padding=0) and
\* setLimits(yMin=0, yMax=self.max_weight * 1.1).  For a positive max_weight it is
\* the range asked for.  For max_weight 0 the range asked for is empty: the view
\* box widens an empty range around its centre and the limits then clip it, and
\* whether the upper bound it reports is 0 or positive depends on the plotting
\* library; both are possible.
view_ranges(max_weight) ==
    IF RLt(Zero, max_weight)
    THEN {<<Zero, RMul(max_weight, <<11, 10>>)>>}
    ELSE {<<Zero, Zero>>, <<<<-1, 2>>, <<1, 2>>>>}

\* sync_right_y_axis: the ticks of the right axis afterwards.  raised: the
\* division by a factor of 0 in _generate_right_axis_ticks (ZeroDivisionError).
sync_right_y_axis(max_weight, max_calories, left_range, ticks) ==
    IF RLt(Zero, max_calories) /\ RLt(Zero, left_range[2])
    THEN LET normalization_factor == RDiv(max_weight, max_calories)
         IN  IF normalization_factor = Zero
             THEN [raised |-> TRUE, right_ticks |-> ticks]
             ELSE [raised |-> FALSE,
                   right_ticks |-> generate_right_axis_ticks(left_range,
                                                             normalization_factor)]
    ELSE [raised |-> FALSE, right_ticks |-> ticks]

\* update_graph(): the outcomes it can have, one per view range.  raised: max()
\* raised at the normalization, and the axis keeps the ticks it had;
\* zero_division: sync_right_y_axis raised.
update_graph(shown, ticks) ==
    LET n == compute_normalization(GraphWeights(shown), GraphCaloriesIn(shown),
                                   GraphCaloriesOut(shown))
        outcome(s) ==
            [raised |-> n.raised,
             zero_division |-> s.raised,
             max_weight |-> n.max_weight,
             max_calories |-> n.max_calories,
             normalization_factor |-> n.normalization_factor,
             normalized_calories_in |-> n.normalized_calories_in,
             normalized_calories_out |-> n.normalized_calories_out,
             right_ticks |-> s.right_ticks]
    IN  IF n.raised THEN {outcome([raised |-> FALSE, right_ticks |-> ticks])}
        ELSE {outcome(sync_right_y_axis(n.max_weight, n.max_calories, left_range, ticks)) :
                 left_range \in view_ranges(n.max_weight)}

\* update_table(): the outcomes it can have.  table: the rows self.table shows
\* afterwards; raised: calculate_daily_totals raised (the table and the axis keep
\* what they had) or the update_graph() it ends with raised.
update_table(basic, composite, daily, shown, ticks) ==
    LET h == calculate_daily_totals(basic, composite, daily)
    IN  IF h.raised
        THEN {[raised |-> TRUE, table |-> shown, right_ticks |-> ticks]}
        ELSE {[raised |-> g.raised \/ g.zero_division,
               table |-> h.table_data,
               right_ticks |-> g.right_ticks] :
                 g \in update_graph(h.table_data, ticks)}

\* The widgets after a handler that returned before its update_table().
NotRefreshed == {[raised |-> FALSE, table |-> table_widget, right_ticks |-> right_ticks]}

\* Mutant: the new entry takes the place of the stored list.
append_entry_overwriting(field, entry_str) == entry_str

\* The stored list with one entry appended: field + f";{entry_str}" if field
\* else entry_str.
append_entry(field, entry_str) ==
    IF field # <<>> THEN field \o <<SEMI>> \o entry_str ELSE entry_str

\* Mutant: the weight typed is added to the weight the date already has.
save_weight_row_adding(date, weight, existing_data) ==
    [date |-> date,
     weight |-> IF existing_data # NULL /\ existing_data.weight # NULL
                THEN RAdd(existing_data.weight, weight) ELSE weight,
     food_consumed |-> IF existing_data # NULL THEN existing_data.food_consumed ELSE <<>>,
     exercises |-> IF existing_data # NULL THEN existing_data.exercises ELSE <<>>]

\* The row save_weight writes: the new weight, with the food_consumed and
\* exercises of the date's row ("" and "" without one).
save_weight_row(date, weight, existing_data) ==
    [date |-> date,
     weight |-> weight,
     food_consumed |-> IF existing_data # NULL THEN existing_data.food_consumed ELSE <<>>,
     exercises |-> IF existing_data # NULL THEN existing_data.exercises ELSE <<>>]

\* save_weight: the "Add" button next to the weight field.
save_weight(weight) ==
    LET date == selected_date
        existing_data == FetchDay(daily_data, date)
        ok == weight # <<>> /\ IsFloat(weight)
    IN  /\ nops < MaxOps
        /\ daily_data' =
             IF ok
             THEN InsertOrReplace(daily_data,
                                  save_weight_row(date, ToFloat(weight), existing_data))
             ELSE daily_data
        /\ \E u \in (IF ok
                    THEN update_table(basic_food, composite_food, daily_data',
                                      table_widget, right_ticks)
                    ELSE NotRefreshed) :
              table_widget' = u.table /\ right_ticks' = u.right_ticks
        /\ UNCHANGED <<basic_food, composite_food, selected_date>>
        /\ last' = [LastOf("save_weight") EXCEPT
                       !.date = date, !.text = weight, !.wrote = ok,
                       !.again = /\ last.op = "save_weight" /\ last.wrote
                                 /\ last.date = date /\ last.text = weight]
        /\ nops' = nops + 1

\* save_food: the "Add" button next to the food dropdown and quantity field.
save_food(food, quantity) ==
    LET date == selected_date
        existing_data == FetchDay(daily_data, date)
        weight == IF existing_data # NULL THEN existing_data.weight ELSE NULL
        exercises == IF existing_data # NULL THEN existing_data.exercises ELSE <<>>
        food_consumed == IF existing_data # NULL THEN existing_data.food_consumed ELSE <<>>
        ok == food # <<>> /\ quantity # <<>> /\ IsFloat(quantity)
        food_str == food \o <<COMMA>> \o FloatStr(ToFloat(quantity))
        new_food == append_entry(food_consumed, food_str)
    IN  /\ nops < MaxOps
        /\ daily_data' =
             IF ok
             THEN InsertOrReplace(daily_data,
                      [date |-> date, weight |-> weight,
                       food_consumed |-> new_food, exercises |-> exercises])
             ELSE daily_data
        /\ \E u \in (IF ok
                    THEN update_table(basic_food, composite_food, daily_data',
                                      table_widget, right_ticks)
                    ELSE NotRefreshed) :
              table_widget' = u.table /\ right_ticks' = u.right_ticks
        /\ UNCHANGED <<basic_food, composite_food, selected_date>>
        /\ last' = [LastOf("save_food") EXCEPT
                       !.date = date, !.name = food, !.text = quantity, !.wrote = ok]
        /\ nops' = nops + 1

\* save_exercise: the "Add" button next to the exercise dropdown and calories field.
save_exercise(exercise, calories) ==
    LET date == selected_date
        existing_data == FetchDay(daily_data, date)
        weight == IF existing_data # NULL THEN existing_data.weight ELSE NULL
        food_consumed == IF existing_data # NULL THEN existing_data.food_consumed ELSE <<>>
        exercises == IF existing_data # NULL THEN existing_data.exercises ELSE <<>>
        ok == exercise # <<>> /\ calories # <<>> /\ IsFloat(calories)
        exercise_str == exercise \o <<COMMA>> \o FloatStr(ToFloat(calories))
        new_exercises == append_entry(exercises, exercise_str)
    IN  /\ nops < MaxOps
        /\ daily_data' =
             IF ok
             THEN InsertOrReplace(daily_data,
                      [date |-> date, weight |-> weight,
                       food_consumed |-> food_consumed, exercises |-> new_exercises])
             ELSE daily_data
        /\ \E u \in (IF ok
                    THEN update_table(basic_food, composite_food, daily_data',
                                      table_widget, right_ticks)
                    ELSE NotRefreshed) :
              table_widget' = u.table /\ right_ticks' = u.right_ticks
        /\ UNCHANGED <<basic_food, composite_food, selected_date>>
        /\ last' = [LastOf("save_exercise") EXCEPT
                       !.date = date, !.name = exercise, !.text = calories, !.wrote = ok]
        /\ nops' = nops + 1

\* The (name, value) pairs save_date_data collects from the rows of the form:
\* those with both fields filled, the values kept as typed.
FilledRows(rows) == SelectSeq(rows, LAMBDA r : r[1] # <<>> /\ r[2] # <<>>)

\* Mutant: the entries are joined with the pair separator.
JoinEntriesWithComma(entries) ==
    Join([i \in DOMAIN entries |-> entries[i][1] \o <<COMMA>> \o entries[i][2]], COMMA)

\* ';'.join([f"{name},{amount}" for name, amount in entries]), amount a str
JoinEntries(entries) ==
    Join([i \in DOMAIN entries |-> entries[i][1] \o <<COMMA>> \o entries[i][2]], SEMI)

\* Mutant: saving nothing for a date removes the date's record.
save_daily_data_dropping(table, date, weight, food_consumed, exercises) ==
    IF weight = NULL /\ food_consumed = <<>> /\ exercises = <<>>
    THEN SelectSeq(table, LAMBDA r : r.date # date)
    ELSE InsertOrReplace(table,
             [date |-> date, weight |-> weight,
              food_consumed |-> JoinEntries(food_consumed),
              exercises |-> JoinEntries(exercises)])

\* Mutant: an empty weight field keeps the weight the date already has.
save_daily_data_keeping(table, date, weight, food_consumed, exercises) ==
    InsertOrReplace(table,
        [date |-> date,
         weight |-> IF weight = NULL /\ FetchDay(table, date) # NULL
                    THEN FetchDay(table, date).weight ELSE weight,
         food_consumed |-> JoinEntries(food_consumed),
         exercises |-> JoinEntries(exercises)])

\* save_daily_data(date, weight, food_consumed, exercises)
save_daily_data(table, date, weight, food_consumed, exercises) ==
    InsertOrReplace(table,
        [date |-> date, weight |-> weight,
         food_consumed |-> JoinEntries(food_consumed),
         exercises |-> JoinEntries(exercises)])

\* load_data_for_date: the (weight, food_consumed, exercises) of the date picked
\* in the calendar, or (None, "", "") when the date has no record.
load_data_for_date(table, date) ==
    LET data == FetchDay(table, date)
    IN  IF data # NULL THEN <<data.weight, data.food_consumed, data.exercises>>
        ELSE <<NULL, <<>>, <<>>>>

\* show_date_data_form: the fields the edit-date form opens with.  raised: an
\* item of a list does not unpack into two values.
show_date_data_form(weight, food_consumed, exercises) ==
    LET food_list == IF food_consumed # <<>> THEN SplitPairs(food_consumed) ELSE <<>>
        exercise_list == IF exercises # <<>> THEN SplitPairs(exercises) ELSE <<>>
    IN  [raised |-> \/ \E k \in DOMAIN food_list : Len(food_list[k]) # 2
                    \/ \E k \in DOMAIN exercise_list : Len(exercise_list[k]) # 2,
         weight_input |-> IF weight # NULL /\ weight # Zero THEN FloatStr(weight) ELSE <<>>,
         food_rows |-> food_list,
         exercise_rows |-> exercise_list]

\* The edit-date form opens for the date: show_date_data_form does not raise.
date_form_opens(table, date) ==
    LET data == load_data_for_date(table, date)
    IN  ~show_date_data_form(data[1], data[2], data[3]).raised

\* save_date_data: the "Save" button of the edit-date form, which
\* load_data_for_date opened for the date picked in the settings calendar.
save_date_data(date, weight_text, food_rows, exercise_rows) ==
    LET ok == weight_text = <<>> \/ IsFloat(weight_text)
        weight == IF weight_text # <<>> THEN ToFloat(weight_text) ELSE NULL
        saved == save_daily_data(daily_data, date, weight,
                                 FilledRows(food_rows), FilledRows(exercise_rows))
    IN  /\ nops < MaxOps
        /\ date_form_opens(daily_data, date)
        /\ daily_data' = IF ok THEN saved ELSE daily_data
        /\ UNCHANGED <<basic_food, composite_food, selected_date>>
        /\ \E u \in (IF ok
                    THEN update_table(basic_food, composite_food, saved,
                                      table_widget, right_ticks)
                    ELSE NotRefreshed) :
              /\ table_widget' = u.table
              /\ right_ticks' = u.right_ticks
              /\ last' = [LastOf("save_date_data") EXCEPT
                             !.date = date, !.text = weight_text, !.rows = food_rows,
                             !.exercise_rows = exercise_rows,
                             !.wrote = ok,
                             !.accepted = ok /\ ~u.raised,
                             !.had_entries =
                                 /\ FetchDay(daily_data, date) # NULL
                                 /\ FetchDay(daily_data, date).food_consumed # <<>>]
        /\ nops' = nops + 1

\* move_to_previous_day / move_to_next_day / select_date: self.selected_date moves
\* (within the days of the model).
move_to_previous_day ==
    /\ DayIndex(selected_date) > 1
    /\ selected_date' = DayOrder[DayIndex(selected_date) - 1]
    /\ UNCHANGED <<basic_food, composite_food, daily_data, last, nops, table_widget, right_ticks>>

move_to_next_day ==
    /\ DayIndex(selected_date) < Len(DayOrder)
    /\ selected_date' = DayOrder[DayIndex(selected_date) + 1]
    /\ UNCHANGED <<basic_food, composite_food, daily_data, last, nops, table_widget, right_ticks>>

-----------------------------------------------------------------------------
(* Specification *)

Init ==
    /\ basic_food = <<>>
    /\ composite_food = <<>>
    /\ daily_data = <<>>
    /\ selected_date = Today
    /\ table_widget = <<>>
    /\ right_ticks = <<>>
    /\ last = LastOf("init")
    /\ nops = 0

SaveBasicFood ==
    \E food_name \in NameTexts, n \in NutritionTexts :
        save_basic_food(food_name, n[1], n[2])

UpdateBasicFood ==
    \E new_food_name \in NameTexts, n \in NutritionTexts, old_food_name \in FoodNames :
        update_basic_food(new_food_name, n[1], n[2], old_food_name)

SaveCompositeFood ==
    \E composite_name \in NameTexts, rows \in IngredientForms :
        save_composite_food(composite_name, rows)

UpdateCompositeFood ==
    \E new_composite_name \in NameTexts, rows \in IngredientForms,
       old_composite_name \in FoodNames :
        update_composite_food(new_composite_name, rows, old_composite_name)

NextCatalog ==
    \/ SaveBasicFood
    \/ UpdateBasicFood
    \/ SaveCompositeFood
    \/ UpdateCompositeFood

SpecCatalog == Init /\ [][NextCatalog]_vars

SaveWeight == \E weight \in WeightTexts : save_weight(weight)

SaveFood == \E food \in FoodNames, quantity \in QuantityTexts : save_food(food, quantity)

SaveExercise ==
    \E exercise \in ExerciseNames, calories \in CaloriesTexts :
        save_exercise(exercise, calories)

SaveDateData ==
    \E date \in Dates, f \in DateForms :
        save_date_data(date, f.weight, f.food_rows, f.exercise_rows)

NextDaily ==
    \/ SaveWeight
    \/ SaveFood
    \/ SaveExercise
    \/ SaveDateData
    \/ move_to_previous_day
    \/ move_to_next_day

SpecDaily == Init /\ [][NextDaily]_vars

\* The serialization on its own: a list of entries is written by save_daily_data
\* and read back by load_daily_data.
InitRoundTrip ==
    /\ basic_food = <<>>
    /\ composite_food = <<>>
    /\ daily_data = <<>>
    /\ selected_date = Today
    /\ table_widget = <<>>
    /\ right_ticks = <<>>
    /\ last \in {[LastOf("entries") EXCEPT !.rows = l] : l \in EntryLists}
    /\ nops = 0

StoreEntries ==
    /\ last.op = "entries"
    /\ daily_data' = save_daily_data(daily_data, selected_date, NULL, last.rows, <<>>)
    /\ last' = [last EXCEPT !.op = "save_daily_data", !.date = selected_date]
    /\ UNCHANGED <<basic_food, composite_food, selected_date, nops, table_widget, right_ticks>>

LoadEntries ==
    /\ last.op = "save_daily_data"
    /\ last' = [last EXCEPT !.op = "load_daily_data",
                            !.loaded = load_daily_data(daily_data, last.date)[2]]
    /\ UNCHANGED <<basic_food, composite_food, daily_data, selected_date, nops, table_widget, right_ticks>>

NextRoundTrip == StoreEntries \/ LoadEntries

SpecRoundTrip == InitRoundTrip /\ [][NextRoundTrip]_vars

\* The commands that feed the history table: foods are created and renamed, and
\* food and exercise entries are added to the days.
HistoryAddBasic ==
    \E food_name \in FoodNames, n \in {<<<<"100">>, <<"20">>>>, <<<<"200">>, <<"10">>>>} :
        save_basic_food(food_name, n[1], n[2])

HistoryRenameBasic ==
    \E new_food_name \in FoodNames, old_food_name \in FoodNames :
        update_basic_food(new_food_name, <<"100">>, <<"20">>, old_food_name)

HistoryAddComposite ==
    \E composite_name \in FoodNames :
        save_composite_food(composite_name, <<<<FoodA, <<"100">>>>, <<FoodB, <<"300">>>>>>)

\* The commands that write the entries of a day, with every field filled in.
EntriesSaveWeight == save_weight(<<"80">>)

EntriesAddFood == \E food \in FoodNames : save_food(food, <<"100">>)

EntriesAddExercise == \E exercise \in ExerciseNames : save_exercise(exercise, <<"300">>)

NextEntries ==
    \/ EntriesSaveWeight
    \/ EntriesAddFood
    \/ EntriesAddExercise
    \/ SaveDateData
    \/ move_to_previous_day
    \/ move_to_next_day

SpecEntries == Init /\ [][NextEntries]_vars

\* The commands that feed the weight columns of the history table: weights are
\* saved, and the edit-date form writes records that have none.
HistoryEditDate ==
    \E date \in Dates, f \in TypedForms :
        save_date_data(date, f.weight, f.food_rows, f.exercise_rows)

NextDayHistory ==
    \/ SaveWeight
    \/ HistoryEditDate
    \/ move_to_previous_day
    \/ move_to_next_day

SpecDayHistory == Init /\ [][NextDayHistory]_vars

\* The same commands with signed values typed in.
SignedAddBasic ==
    \E food_name \in FoodNames, n \in SignedNutritionTexts :
        save_basic_food(food_name, n[1], n[2])

SignedAddComposite ==
    \E composite_name \in FoodNames :
        save_composite_food(composite_name, <<<<FoodA, <<"100">>>>>>)

SignedAddFoodEntry ==
    \E food \in FoodNames, quantity \in SignedQuantityTexts : save_food(food, quantity)

SignedAddExercise ==
    \E exercise \in ExerciseNames, calories \in SignedCaloriesTexts :
        save_exercise(exercise, calories)

NextSigned ==
    \/ SignedAddBasic
    \/ SignedAddComposite
    \/ SignedAddFoodEntry
    \/ SignedAddExercise

SpecSigned == Init /\ [][NextSigned]_vars

\* The commands that write daily records, the edit-date form being saved with
\* nothing in it.
RecordsClearDate ==
    \E date \in Dates : save_date_data(date, <<>>, <<>>, <<>>)

NextRecords ==
    \/ EntriesSaveWeight
    \/ EntriesAddFood
    \/ EntriesAddExercise
    \/ RecordsClearDate
    \/ move_to_previous_day
    \/ move_to_next_day

SpecRecords == Init /\ [][NextRecords]_vars

\* The edit-date form is opened for a date and saved as it opened.
EditDateUnchanged ==
    \E date \in Dates :
        LET data == load_data_for_date(daily_data, date)
            form == show_date_data_form(data[1], data[2], data[3])
        IN  /\ ~form.raised
            /\ save_date_data(date, form.weight_input, form.food_rows, form.exercise_rows)

NextEditDate ==
    \/ SaveWeight
    \/ EntriesAddFood
    \/ EntriesAddExercise
    \/ EditDateUnchanged
    \/ move_to_previous_day
    \/ move_to_next_day

SpecEditDate == Init /\ [][NextEditDate]_vars

\* The commands that feed the graph: foods are created and the edit-date form
\* writes whole days.
NextGraph ==
    \/ HistoryAddBasic
    \/ SaveDateData
    \/ EntriesSaveWeight

SpecGraph == Init /\ [][NextGraph]_vars

NextHistory ==
    \/ HistoryAddBasic
    \/ HistoryRenameBasic
    \/ HistoryAddComposite
    \/ EntriesAddFood
    \/ EntriesAddExercise
    \/ move_to_previous_day
    \/ move_to_next_day

SpecHistory == Init /\ [][NextHistory]_vars

\* The right axis on its own: a view range and the two maxima are drawn, and
\* sync_right_y_axis sets the ticks for them.
LeftBounds ==
    {<<-150, 1>>, <<-50, 1>>, <<-1, 2>>, Zero, <<25, 1>>, <<50, 1>>,
     <<99, 2>>, <<100, 1>>, <<150, 1>>}

LeftRanges == {r \in LeftBounds \X LeftBounds : RLt(r[1], r[2])}

MaxWeights == {Zero, <<25, 1>>, <<100, 1>>, <<200, 1>>}

MaxCalories == {Zero, <<100, 1>>}

InitTicks ==
    /\ basic_food = <<>>
    /\ composite_food = <<>>
    /\ daily_data = <<>>
    /\ selected_date = Today
    /\ table_widget = <<>>
    /\ right_ticks = <<>>
    /\ last \in {[op |-> "viewRange", left_range |-> r, max_weight |-> w,
                   max_calories |-> c, raised |-> FALSE] :
                     r \in LeftRanges, w \in MaxWeights, c \in MaxCalories}
    /\ nops = 0

SyncRightYAxis ==
    /\ last.op = "viewRange"
    /\ LET s == sync_right_y_axis(last.max_weight, last.max_calories,
                                  last.left_range, right_ticks)
       IN  /\ right_ticks' = s.right_ticks
           /\ last' = [last EXCEPT !.op = "sync_right_y_axis", !.raised = s.raised]
    /\ UNCHANGED <<basic_food, composite_food, daily_data, selected_date, nops,
                   table_widget>>

NextTicks == SyncRightYAxis

SpecTicks == InitTicks /\ [][NextTicks]_vars

Next == NextCatalog \/ NextDaily

Spec == Init /\ [][Next]_vars

-----------------------------------------------------------------------------
(* Properties of the food catalog (checked under SpecCatalog) *)

FoodCommand == {"save_basic_food", "update_basic_food",
                "save_composite_food", "update_composite_food"}
CompositeCommand == {"save_composite_food", "update_composite_food"}

\* The names of all catalog rows, basic rows first.
CatalogNames ==
    [i \in DOMAIN basic_food |-> basic_food[i].food_name]
    \o [i \in DOMAIN composite_food |-> composite_food[i].food_name]

InCatalog(name) == \E i \in DOMAIN CatalogNames : CatalogNames[i] = name

RECURSIVE SumSeq(_)
SumSeq(xs) == IF xs = <<>> THEN Zero ELSE RAdd(xs[1], SumSeq(Tail(xs)))

\* The supplied ingredient rows with both fields filled whose name matches a food.
ResolvingRows(rows) ==
    SelectSeq(rows, LAMBDA r : r[1] # <<>> /\ r[2] # <<>> /\ InCatalog(r[1]))

\* The sum of their quantities.
ResolvingWeight(rows) ==
    LET res == ResolvingRows(rows)
    IN  SumSeq([k \in DOMAIN res |-> ToFloat(res[k][2])])

\* The weighted average per 100 g of column col (1 calories, 2 protein) over the
\* <<name, quantity>> pairs, the names resolved in the current catalog.
WeightedPer100(pairs, col) ==
    LET part(k) == RDiv(RMul(FetchNutrition(basic_food, composite_food, pairs[k][1])[col],
                             ToFloat(pairs[k][2])), Hundred)
        num == SumSeq([k \in DOMAIN pairs |-> part(k)])
        den == SumSeq([k \in DOMAIN pairs |-> ToFloat(pairs[k][2])])
    IN  RMul(RDiv(num, den), Hundred)

\* C1: adding a Basic food whose name already exists among the Basic or Composite
\* foods fails: no row is added and the stored foods are unchanged.
C1_DuplicateBasicRejected ==
    [][(last'.op = "save_basic_food" /\ InCatalog(last'.name))
         => (basic_food' = basic_food /\ composite_food' = composite_food)]_vars

\* C2: no two foods of the catalog, Basic and Composite taken together, have the
\* same name.
C2_UniqueNames ==
    \A i, j \in DOMAIN CatalogNames : CatalogNames[i] = CatalogNames[j] => i = j

\* C3: a rename to a new name that differs from the old one and already names a
\* food, Basic or Composite, fails and writes nothing.
C3_RenameToExistingRejected ==
    [][(/\ last'.op \in {"update_basic_food", "update_composite_food"}
        /\ last'.name # last'.old
        /\ InCatalog(last'.name))
         => (basic_food' = basic_food /\ composite_food' = composite_food)]_vars

\* C4: add_composite fails with an unresolved-ingredient error and stores no
\* composite if any supplied ingredient (a row with a name and a quantity) names
\* no food of the catalog; a composite is stored only when every supplied
\* ingredient resolves.
C4_UnresolvedIngredientRejected ==
    [][(/\ last'.op = "save_composite_food"
        /\ \E k \in DOMAIN last'.rows :
              /\ last'.rows[k][1] # <<>>
              /\ last'.rows[k][2] # <<>>
              /\ ~InCatalog(last'.rows[k][1]))
         => composite_food' = composite_food]_vars

\* C5: creating or updating a Composite whose resolving ingredients have total
\* weight 0 leaves the catalog exactly as it was.
C5_EmptyCompositeNotSaved ==
    [][(last'.op \in CompositeCommand /\ ResolvingWeight(last'.rows) = Zero)
         => (basic_food' = basic_food /\ composite_food' = composite_food)]_vars

\* A named composite was submitted with ingredient rows filled in, and their
\* resolving weight was 0.
C5_Witness ==
    /\ last.op \in CompositeCommand
    /\ last.name # <<>>
    /\ FilledRows(last.rows) # <<>>
    /\ last.total_weight = Zero
    /\ ~last.wrote

\* The rows of composite_food' that the composite command just wrote.
WrittenRow(i) ==
    IF last'.op = "save_composite_food"
    THEN i = Len(composite_food')
    ELSE i \in DOMAIN composite_food /\ composite_food[i].food_name = last'.old

\* C6: after a successful composite create or update, the stored calories and
\* protein per 100 g are the weighted averages over the stored ingredients, with
\* the values each ingredient name resolved to at the moment of the save.
C6_CompositeIsWeightedAverage ==
    [][(last'.op \in CompositeCommand /\ last'.wrote)
         => \A i \in DOMAIN composite_food' :
               WrittenRow(i) =>
                 LET pairs == SplitPairs(composite_food'[i].ingredients)
                 IN  /\ composite_food'[i].calories_per_100g = WeightedPer100(pairs, 1)
                     /\ composite_food'[i].protein_per_100g = WeightedPer100(pairs, 2)]_vars

\* A composite of two different ingredients was just stored.
C6_Witness ==
    /\ last.op \in CompositeCommand
    /\ last.wrote
    /\ \E i \in DOMAIN composite_food :
          /\ composite_food[i].food_name = last.name
          /\ LET pairs == SplitPairs(composite_food[i].ingredients)
             IN  Len(pairs) = 2 /\ pairs[1][1] # pairs[2][1]

\* C7: the stored calories and protein of a Composite change only when that
\* Composite itself is saved again; an edit of another food leaves them unchanged.
C7_CompositeIsSnapshot ==
    [][\A i \in DOMAIN composite_food :
          /\ i \in DOMAIN composite_food'
          /\ (\/ composite_food'[i].calories_per_100g # composite_food[i].calories_per_100g
              \/ composite_food'[i].protein_per_100g # composite_food[i].protein_per_100g)
               => (/\ last'.op = "update_composite_food"
                   /\ composite_food[i].food_name = last'.old)]_vars

\* A basic food was just edited, and a composite that lists it still stores the
\* values blended from the old ones.
C7_Witness ==
    /\ last.op = "update_basic_food"
    /\ last.wrote
    /\ \E i \in DOMAIN composite_food :
          LET pairs == SplitPairs(composite_food[i].ingredients)
          IN  /\ \A k \in DOMAIN pairs : InCatalog(pairs[k][1])
              /\ \E k \in DOMAIN pairs : pairs[k][1] = last.name
              /\ composite_food[i].calories_per_100g # WeightedPer100(pairs, 1)

\* C8: when the same name exists in both tables, resolution returns the Basic
\* food's calories and protein.
C8_BasicResolvedFirst ==
    \A name \in FoodNames :
        (HasName(basic_food, name) /\ HasName(composite_food, name))
          => \E i \in DOMAIN basic_food :
                /\ basic_food[i].food_name = name
                /\ FetchNutrition(basic_food, composite_food, name)
                     = <<basic_food[i].calories_per_100g, basic_food[i].protein_per_100g>>

-----------------------------------------------------------------------------
(* Properties of the daily records (checked under SpecDaily) *)

WeightCommand == "save_weight"
FoodCommandOfDay == "save_food"
ExerciseCommand == "save_exercise"

\* The rows stored for a date, in rowid order.
RowsOn(table, date) == SelectSeq(table, LAMBDA r : r.date = date)

\* The weight, food list and exercise list a date shows (None, "", "" without a row).
WeightOn(table, date) ==
    IF RowsOn(table, date) = <<>> THEN NULL ELSE RowsOn(table, date)[1].weight
FoodOn(table, date) ==
    IF RowsOn(table, date) = <<>> THEN <<>> ELSE RowsOn(table, date)[1].food_consumed
ExercisesOn(table, date) ==
    IF RowsOn(table, date) = <<>> THEN <<>> ELSE RowsOn(table, date)[1].exercises

\* C9: the daily record store holds at most one record per date.
C9_OneRecordPerDate ==
    \A i, j \in DOMAIN daily_data : daily_data[i].date = daily_data[j].date => i = j

\* A single-field command just wrote a date that already had a record: the record
\* holds a weight and a food entry, and another date has a record as well.
C9_Witness ==
    /\ last.op \in {WeightCommand, FoodCommandOfDay, ExerciseCommand}
    /\ last.wrote
    /\ WeightOn(daily_data, last.date) # NULL
    /\ FoodOn(daily_data, last.date) # <<>>
    /\ Len(daily_data) >= 2

\* C10: upsert_weight leaves the date's food and exercise lists unchanged,
\* append_food its weight and exercise list, append_exercise its weight and food
\* list, and none of the three changes the record of any other date.
C10_SingleFieldWrite ==
    [][(last'.op \in {WeightCommand, FoodCommandOfDay, ExerciseCommand})
         => LET d == last'.date
            IN  /\ \A o \in Dates \ {d} : RowsOn(daily_data', o) = RowsOn(daily_data, o)
                /\ (last'.op # WeightCommand)
                     => WeightOn(daily_data', d) = WeightOn(daily_data, d)
                /\ (last'.op # FoodCommandOfDay)
                     => FoodOn(daily_data', d) = FoodOn(daily_data, d)
                /\ (last'.op # ExerciseCommand)
                     => ExercisesOn(daily_data', d) = ExercisesOn(daily_data, d)]_vars

\* A weight was just saved for a date that had food and exercise entries, while
\* another date has a record too.
C10_Witness ==
    /\ last.op = WeightCommand
    /\ last.wrote
    /\ FoodOn(daily_data, last.date) # <<>>
    /\ ExercisesOn(daily_data, last.date) # <<>>
    /\ \E o \in Dates \ {last.date} : RowsOn(daily_data, o) # <<>>

\* The entries of a parsed list, each a pair.
IsPairList(items) == \A k \in DOMAIN items : Len(items[k]) = 2

\* C11: after append_food (resp. append_exercise) the date's food (resp. exercise)
\* list is the list before the call with the new pair appended at the end: the
\* prior entries are kept in their order, and an entry whose name is already in
\* the list is added as a separate entry.
C11_AppendKeepsPriorEntries ==
    [][(nops' = nops + 1 /\ last'.op \in {FoodCommandOfDay, ExerciseCommand} /\ last'.wrote)
         => LET d == last'.date
                before == IF last'.op = FoodCommandOfDay
                          THEN ParseField(FoodOn(daily_data, d))
                          ELSE ParseField(ExercisesOn(daily_data, d))
                after  == IF last'.op = FoodCommandOfDay
                          THEN ParseField(FoodOn(daily_data', d))
                          ELSE ParseField(ExercisesOn(daily_data', d))
                n == Len(before)
            IN  /\ Len(after) = n + 1
                /\ SubSeq(after, 1, n) = before
                /\ Len(after[n + 1]) = 2
                /\ after[n + 1][1] = last'.name
                /\ ToFloat(after[n + 1][2]) = ToFloat(last'.text)]_vars

\* A food was just appended to a list that already had an entry of the same name.
C11_Witness ==
    /\ last.op = FoodCommandOfDay
    /\ last.wrote
    /\ LET after == ParseField(FoodOn(daily_data, last.date))
       IN  /\ Len(after) >= 2
           /\ \E k \in 1..(Len(after) - 1) : after[k][1] = last.name

\* C12: upsert_weight is idempotent: a second upsert_weight(date, w) right after
\* the first, with the same w, leaves every record as the first call left it.
C12_WeightIdempotent ==
    [][(nops' = nops + 1 /\ last'.op = WeightCommand /\ last'.again)
         => daily_data' = daily_data]_vars

\* The same non-zero weight was just saved twice in a row for a date that has
\* food entries.
C12_Witness ==
    /\ last.op = WeightCommand
    /\ last.again
    /\ last.wrote
    /\ WeightOn(daily_data, last.date) # NULL
    /\ WeightOn(daily_data, last.date) # Zero
    /\ FoodOn(daily_data, last.date) # <<>>

\* The rows of the form that reach save_daily_data are well formed: the name is a
\* single piece of text without separator and the amount is a numeral.
WellFormedRows(rows) ==
    \A k \in DOMAIN FilledRows(rows) :
        LET r == FilledRows(rows)[k]
        IN  /\ COMMA \notin {r[1][i] : i \in DOMAIN r[1]}
            /\ SEMI \notin {r[1][i] : i \in DOMAIN r[1]}
            /\ IsFloat(r[2])

\* C13: replace_record is a full overwrite: afterwards the date has one record
\* that holds exactly the given weight (none when none is given), exactly the
\* given food entries and exactly the given exercise entries (names and numeric
\* amounts), and the record of no other date is changed.
C13_ReplaceIsFullOverwrite ==
    [][(/\ nops' = nops + 1
        /\ last'.op = "save_date_data"
        /\ last'.wrote
        /\ WellFormedRows(last'.rows)
        /\ WellFormedRows(last'.exercise_rows))
         => LET d == last'.date
            IN  /\ Len(RowsOn(daily_data', d)) = 1
                /\ WeightOn(daily_data', d)
                     = (IF last'.text = <<>> THEN NULL ELSE ToFloat(last'.text))
                /\ ParseField(FoodOn(daily_data', d)) = FilledRows(last'.rows)
                /\ ParseField(ExercisesOn(daily_data', d)) = FilledRows(last'.exercise_rows)
                /\ \A o \in Dates \ {d} :
                      RowsOn(daily_data', o) = RowsOn(daily_data, o)]_vars

\* The form was just saved with no food row over a record that had food entries,
\* while another date has a record.
C13_Witness ==
    /\ last.op = "save_date_data"
    /\ last.wrote
    /\ last.had_entries
    /\ FilledRows(last.rows) = <<>>
    /\ FoodOn(daily_data, last.date) = <<>>
    /\ \E o \in Dates \ {last.date} : RowsOn(daily_data, o) # <<>>

-----------------------------------------------------------------------------
(* Properties of the serialization (checked under SpecRoundTrip) *)

\* No name and no value of the list contains ',' or ';'.
NoSeparators(pairs) ==
    \A k \in DOMAIN pairs : \A f \in 1..2 : \A i \in DOMAIN pairs[k][f] :
        pairs[k][f][i] \notin {COMMA, SEMI}

\* C14: serializing a list of (name, value) pairs with ',' and ';' and parsing the
\* result gives back the same list (length, order and pairs, the empty list
\* included), provided no name or value contains ',' or ';'.
C14_RoundTrip ==
    (last.op = "load_daily_data" /\ NoSeparators(last.rows)) => last.loaded = last.rows

\* A list of two different pairs without separators was written and read back.
C14_Witness ==
    /\ last.op = "load_daily_data"
    /\ NoSeparators(last.rows)
    /\ Len(last.rows) = 2
    /\ last.rows[1] # last.rows[2]
    /\ Len(last.loaded) = 2

-----------------------------------------------------------------------------
(* Properties of the history table *)

\* The history table of the current state.
History == calculate_daily_totals(basic_food, composite_food, daily_data)

\* C15: a stored food_consumed or exercises field that does not parse into pairs
\* is read as an empty list and raises nothing: load_daily_data returns pairs
\* only, and the history table is built with a row for every record.
C15_MalformedFieldTolerated ==
    /\ LET h == History
       IN  ~h.raised /\ Len(h.table_data) = Len(daily_data)
    /\ \A d \in Dates :
          /\ IsPairList(load_daily_data(daily_data, d)[2])
          /\ IsPairList(load_daily_data(daily_data, d)[3])

\* A stored list field made of (name, numeral) pairs.
WellFormedField(text) ==
    \A k \in DOMAIN ParseField(text) :
        Len(ParseField(text)[k]) = 2 /\ IsFloat(ParseField(text)[k][2])

WellFormedRecord(row) ==
    WellFormedField(row.food_consumed) /\ WellFormedField(row.exercises)

\* C16: during day aggregation a food entry whose name resolves to no food
\* contributes 0 to calories-in and to protein and does not abort: the day's
\* totals are those of its resolving entries alone, and every day gets its row.
C16_UnresolvedContributesZero ==
    /\ \A i \in DOMAIN daily_data :
          LET row   == daily_data[i]
              known == SelectSeq(ParseField(row.food_consumed), LAMBDA e : InCatalog(e[1]))
              all   == aggregate_day(basic_food, composite_food, row)
              only  == aggregate_day(basic_food, composite_food,
                                     [row EXCEPT !.food_consumed = JoinEntries(known)])
          IN  WellFormedRecord(row)
                => /\ ~all.raised
                   /\ all.total_calories_in = only.total_calories_in
                   /\ all.total_protein = only.total_protein
                   /\ (known = <<>>) => (all.total_calories_in = Zero /\ all.total_protein = Zero)
    /\ (\A i \in DOMAIN daily_data : WellFormedRecord(daily_data[i]))
          => LET h == History
             IN  ~h.raised /\ Len(h.table_data) = Len(daily_data)

\* A day lists an entry that resolves to no food followed by one that resolves,
\* and its calories-in are not 0.
C16_Witness ==
    \E i \in DOMAIN daily_data :
        LET foods == ParseField(daily_data[i].food_consumed)
        IN  /\ WellFormedRecord(daily_data[i])
            /\ \E k, m \in DOMAIN foods :
                  k < m /\ ~InCatalog(foods[k][1]) /\ InCatalog(foods[m][1])
            /\ aggregate_day(basic_food, composite_food, daily_data[i]).total_calories_in # Zero

\* What one food entry adds to column col (1 calories, 2 protein).
EntryContribution(e, col) ==
    IF InCatalog(e[1])
    THEN RDiv(RMul(FetchNutrition(basic_food, composite_food, e[1])[col], ToFloat(e[2])),
              Hundred)
    ELSE Zero

\* C17: for every daily record, calories_in is the sum over its food entries of
\* resolve(name).calories_per_100g * qty / 100, protein the same sum with
\* protein_per_100g, and calories_out the sum of the calories_burned values of its
\* exercise entries, a repeated entry counted once per occurrence.
C17_AggregatesAreSums ==
    \A i \in DOMAIN daily_data :
        LET row   == daily_data[i]
            foods == ParseField(row.food_consumed)
            exs   == ParseField(row.exercises)
            agg   == aggregate_day(basic_food, composite_food, row)
        IN  WellFormedRecord(row)
              => /\ agg.total_calories_in
                      = SumSeq([k \in DOMAIN foods |-> EntryContribution(foods[k], 1)])
                 /\ agg.total_protein
                      = SumSeq([k \in DOMAIN foods |-> EntryContribution(foods[k], 2)])
                 /\ agg.total_calories_out
                      = SumSeq([k \in DOMAIN exs |-> ToFloat(exs[k][2])])

\* A day lists the same resolving food twice, and its calories-in are not 0.
C17_Witness ==
    \E i \in DOMAIN daily_data :
        LET foods == ParseField(daily_data[i].food_consumed)
        IN  /\ WellFormedRecord(daily_data[i])
            /\ \E k, m \in DOMAIN foods :
                  k < m /\ foods[k][1] = foods[m][1] /\ InCatalog(foods[k][1])
            /\ aggregate_day(basic_food, composite_food, daily_data[i]).total_calories_in # Zero

\* C18: in every reachable state the calories_in, calories_out and protein of
\* every record are each >= 0.
C18_AggregatesNonNegative ==
    \A i \in DOMAIN daily_data :
        LET agg == aggregate_day(basic_food, composite_food, daily_data[i])
        IN  ~agg.raised
              => /\ RLe(Zero, agg.total_calories_in)
                 /\ RLe(Zero, agg.total_calories_out)
                 /\ RLe(Zero, agg.total_protein)

\* C19: every food of the catalog, Basic or Composite, has calories_per_100g >= 0
\* and protein_per_100g >= 0.
C19_CatalogValuesNonNegative ==
    /\ \A i \in DOMAIN basic_food :
          RLe(Zero, basic_food[i].calories_per_100g)
          /\ RLe(Zero, basic_food[i].protein_per_100g)
    /\ \A i \in DOMAIN composite_food :
          RLe(Zero, composite_food[i].calories_per_100g)
          /\ RLe(Zero, composite_food[i].protein_per_100g)

\* The dates that have a record, and the row the history table shows for one.
RecordDates == {d \in Dates : RowsOn(daily_data, d) # <<>>}
ShownRow(h, d) ==
    h.table_data[CHOOSE k \in DOMAIN h.table_data : h.table_data[k].date = d]

\* The latest date before d among the dates of S (S has one).
LatestBefore(S, d) ==
    CHOOSE e \in S :
        /\ DayIndex(e) < DayIndex(d)
        /\ \A f \in S : DayIndex(f) < DayIndex(d) => DayIndex(f) <= DayIndex(e)

EarlierIn(S, d) == {e \in S : DayIndex(e) < DayIndex(d)}

\* prior_delta of date d computed against the latest earlier date of S.
PriorDeltaAgainst(S, d) ==
    IF WeightOn(daily_data, d) = NULL \/ EarlierIn(S, d) = {} THEN NA
    ELSE IF WeightOn(daily_data, LatestBefore(S, d)) = NULL THEN NA
    ELSE Fmt2(RSub(WeightOn(daily_data, d), WeightOn(daily_data, LatestBefore(S, d))))

\* C20 as stated: previous_weight is carried across the records that have no
\* weight: prior_delta of a record with a weight is its weight minus the weight of
\* the most recent earlier record that has one.
C20_PreviousWeightCarried ==
    LET h == History
    IN  ~h.raised
          => \A d \in RecordDates :
                ShownRow(h, d).prior_diff
                  = PriorDeltaAgainst({e \in RecordDates : WeightOn(daily_data, e) # NULL}, d)

\* C20 as amended: previous_weight is the weight of the record just before, in
\* ascending date order: prior_delta is the record's weight minus that weight, and
\* is "N/A" when the record has no weight, when it is the first record, and when
\* the record just before it has no weight.
C20_PriorDeltaAgainstPrecedingRecord ==
    LET h == History
    IN  ~h.raised
          => \A d \in RecordDates :
                ShownRow(h, d).prior_diff = PriorDeltaAgainst(RecordDates, d)

\* Three dates have a record; the first and the last have a weight and the one
\* between them has none, and the last one shows no prior_delta.
C20_Witness ==
    /\ ~History.raised
    /\ RecordDates = Dates
    /\ WeightOn(daily_data, DayOrder[1]) # NULL
    /\ WeightOn(daily_data, DayOrder[2]) = NULL
    /\ WeightOn(daily_data, DayOrder[3]) # NULL
    /\ ShownRow(History, DayOrder[3]).prior_diff = NA

\* C21: build_history yields exactly one row per daily record, newest date first;
\* the goal_delta of a row is weight - GOAL_WEIGHT when the record has a weight and
\* "N/A" otherwise.
C21_OneRowPerRecordNewestFirst ==
    (\A i \in DOMAIN daily_data : WellFormedRecord(daily_data[i]))
      => LET h == History
             t == h.table_data
         IN  /\ ~h.raised
             /\ Len(t) = Len(daily_data)
             /\ {t[k].date : k \in DOMAIN t} = RecordDates
             /\ \A k, m \in DOMAIN t : k < m => DayIndex(t[k].date) > DayIndex(t[m].date)
             /\ \A k \in DOMAIN t :
                   LET w == WeightOn(daily_data, t[k].date)
                   IN  IF w = NULL THEN t[k].goal_diff = NA
                       ELSE /\ t[k].goal_diff # NA
                            /\ t[k].goal_diff[2] = RoundHalfEven(RMul(RSub(w, <<Goal, 1>>), Hundred))

\* Every date has a record with well-formed fields; one record has no weight and
\* another has a weight that is not the goal.
C21_Witness ==
    /\ RecordDates = Dates
    /\ \A i \in DOMAIN daily_data : WellFormedRecord(daily_data[i])
    /\ \E d \in Dates : WeightOn(daily_data, d) = NULL
    /\ \E d \in Dates : WeightOn(daily_data, d) # NULL /\ WeightOn(daily_data, d) # <<Goal, 1>>

-----------------------------------------------------------------------------
(* Properties of the graph *)

\* The weights the table shows (the rows that show one).
ShownWeights ==
    {CellValue(table_widget[i].weight) :
        i \in {k \in DOMAIN table_widget : table_widget[k].weight # NA}}

\* The calorie values the table shows, in and out.
ShownCalories ==
    {CellValue(table_widget[i].calories_in) : i \in DOMAIN table_widget}
    \cup {CellValue(table_widget[i].calories_out) : i \in DOMAIN table_widget}

\* The largest element of a non-empty set of reals.
Largest(S) == CHOOSE x \in S : \A y \in S : RLe(y, x)

\* C22: normalization computes max_weight as the maximum over the records that
\* have a weight, and yields 0 without raising when no record has one, also when
\* records exist and none of them has a weight.
C22_MaxWeightDefaultsToZero ==
    LET mw == max_weight_of(GraphWeights(table_widget))
    IN  /\ ~mw.raised
        /\ mw.value = (IF ShownWeights = {} THEN Zero ELSE Largest(ShownWeights))

\* C23: the normalization factor is max_weight / max_calories when
\* max_calories > 0 and 1 otherwise, max_calories being the largest value of the
\* calories-in and calories-out series (0 without records); every plotted calorie
\* value is its value times the factor, and the largest one is plotted at
\* max_weight.
C23_NormalizationFactor ==
    \A g \in update_graph(table_widget, right_ticks) :
    LET mc == IF ShownCalories = {} THEN Zero ELSE Largest(ShownCalories)
        n  == Len(table_widget)
    IN  ~g.raised
          => /\ g.max_calories = mc
             /\ g.normalization_factor
                  = (IF RLt(Zero, mc) THEN RDiv(g.max_weight, mc) ELSE <<1, 1>>)
             /\ Len(g.normalized_calories_in) = n
             /\ Len(g.normalized_calories_out) = n
             /\ \A i \in 1..n :
                   /\ g.normalized_calories_in[i]
                        = RMul(CellValue(table_widget[n + 1 - i].calories_in),
                               g.normalization_factor)
                   /\ g.normalized_calories_out[i]
                        = RMul(CellValue(table_widget[n + 1 - i].calories_out),
                               g.normalization_factor)
             /\ RLt(Zero, mc)
                   => \E i \in 1..n :
                         \/ g.normalized_calories_in[i] = g.max_weight
                         \/ g.normalized_calories_out[i] = g.max_weight

\* The table shows a weight, calories-in and calories-out that are all different
\* and not 0, so the factor is neither 0 nor 1.
C23_Witness ==
    \E g \in update_graph(table_widget, right_ticks) :
        /\ ~g.raised
        /\ RLt(Zero, g.max_weight)
        /\ RLt(Zero, g.max_calories)
        /\ g.normalization_factor # <<1, 1>>
        /\ \E i \in DOMAIN table_widget :
              /\ RLt(Zero, CellValue(table_widget[i].calories_in))
              /\ RLt(CellValue(table_widget[i].calories_in),
                     CellValue(table_widget[i].calories_out))

\* A real rounded down, and rounded up, to a multiple of 100.
Floor100(x) == ((x[1] \div x[2]) \div 100) * 100
Ceil100(x) == -Floor100(<<-x[1], x[2]>>)

\* C24: the generated sequence has exactly one tick per multiple of 100 from
\* low / factor rounded down to a multiple of 100 up to high / factor rounded up
\* to a multiple of 100 and none beyond, also when high / factor is itself a
\* multiple of 100 and when low / factor is negative; each tick is at
\* right_value * factor and is labelled str(right_value).
C24_TicksSpanRoundedRange ==
    (last.op = "sync_right_y_axis" /\ right_ticks # <<>>)
      => LET f     == RDiv(last.max_weight, last.max_calories)
             low   == Floor100(RDiv(last.left_range[1], f))
             high  == Ceil100(RDiv(last.left_range[2], f))
             ticks == right_ticks
         IN  /\ Len(ticks) = (high - low) \div 100 + 1
             /\ \A k \in DOMAIN ticks :
                   LET right_value == low + 100 * (k - 1)
                   IN  ticks[k] = <<RMul(<<right_value, 1>>, f), IntStr(right_value)>>

\* C25: after every completed mutating command (add weight, add food, add
\* exercise, edit date, add or edit a Basic or Composite food) the rows the table
\* shows are the history computed from the current catalog and daily records.
C25_TableShowsCurrentHistory ==
    LET h == History
    IN  (last.wrote /\ ~h.raised) => table_widget = h.table_data

\* C26: a hard failure of a food command (duplicate name on create or rename,
\* composite without valid ingredient) keeps the form open: whenever the food
\* form is closed as accepted, the requested food was written to the catalog.
C26_AcceptedImpliesWritten ==
    (/\ last.op \in {"save_basic_food", "update_basic_food",
                      "save_composite_food", "update_composite_food"}
     /\ last.accepted)
      => /\ last.wrote
         /\ \/ HasName(basic_food, last.name)
            \/ HasName(composite_food, last.name)

\* C27: a daily record is created by the first write (weight, food or exercise)
\* for its date and is never deleted: the set of dates that have a record only
\* grows, also when the edit-date form saves a date with an empty weight and no
\* food or exercise entry.
C27_RecordDatesOnlyGrow ==
    [][/\ \A d \in Dates :
            RowsOn(daily_data, d) # <<>> => RowsOn(daily_data', d) # <<>>
       /\ (/\ nops' = nops + 1
           /\ last'.op \in {"save_weight", "save_food", "save_exercise", "save_date_data"}
           /\ last'.wrote)
            => RowsOn(daily_data', last'.date) # <<>>]_vars

\* The edit-date form was saved with nothing in it for a date that had food
\* entries, and the date's record is now empty.
C27_Witness ==
    /\ last.op = "save_date_data"
    /\ last.wrote
    /\ last.had_entries
    /\ last.text = <<>>
    /\ FilledRows(last.rows) = <<>>
    /\ FilledRows(last.exercise_rows) = <<>>
    /\ FetchDay(daily_data, last.date)
         = [date |-> last.date, weight |-> NULL,
            food_consumed |-> <<>>, exercises |-> <<>>]

\* C28: creating or updating a Composite terminates and reads each ingredient's
\* stored values exactly once, without expanding the ingredient's own ingredient
\* list, also when the list names the composite being updated or the composites
\* reference each other: the command ends with one stored pair per supplied row
\* that resolves, in the order supplied, the total weight is the sum of those
\* rows' quantities, and the stored values are blended from the values those
\* names had stored before the command.
C28_IngredientsReadOnce ==
    [][(nops' = nops + 1 /\ last'.op \in CompositeCommand)
         => LET res    == ResolvingRows(last'.rows)
                reads  == [k \in DOMAIN res |->
                              FetchNutrition(basic_food, composite_food, res[k][1])]
                weight == SumSeq([k \in DOMAIN res |-> ToFloat(res[k][2])])
                total(col) ==
                    SumSeq([k \in DOMAIN res |->
                               RDiv(RMul(reads[k][col], ToFloat(res[k][2])), Hundred)])
            IN  /\ last'.total_weight = weight
                /\ last'.wrote
                     => \A i \in DOMAIN composite_food' :
                           WrittenRow(i) =>
                             /\ composite_food'[i].ingredients
                                  = JoinPairs([k \in DOMAIN res |->
                                                  <<res[k][1], ToFloat(res[k][2])>>])
                             /\ composite_food'[i].calories_per_100g
                                  = RMul(RDiv(total(1), weight), Hundred)
                             /\ composite_food'[i].protein_per_100g
                                  = RMul(RDiv(total(2), weight), Hundred)]_vars

\* A composite was just updated from a list that names the composite itself, or
\* was stored from a list naming a composite that lists the new one's name.
C28_Witness ==
    /\ last.wrote
    /\ \/ /\ last.op = "update_composite_food"
          /\ \E k \in DOMAIN last.rows :
                last.rows[k][1] = last.old /\ last.rows[k][2] # <<>>
       \/ /\ last.op = "save_composite_food"
          /\ \E k \in DOMAIN last.rows, i \in DOMAIN composite_food :
                /\ last.rows[k][2] # <<>>
                /\ composite_food[i].food_name = last.rows[k][1]
                /\ composite_food[i].food_name # last.name
                /\ \E m \in DOMAIN SplitPairs(composite_food[i].ingredients) :
                      SplitPairs(composite_food[i].ingredients)[m][1] = last.name

\* The catalog rows a step rewrote.
RewrittenBasic == {i \in DOMAIN basic_food : basic_food'[i] # basic_food[i]}
RewrittenComposite ==
    {i \in DOMAIN composite_food : composite_food'[i] # composite_food[i]}

\* C29: renaming a food from X to Y changes only that food's catalog row: no
\* daily record and no other composite's ingredient list is rewritten, and a
\* daily food entry that names X resolves to nothing afterwards unless another
\* food named X exists.
C29_RenameChangesOneRow ==
    [][(/\ nops' = nops + 1
        /\ last'.op \in {"update_basic_food", "update_composite_food"}
        /\ last'.wrote
        /\ last'.name # last'.old)
         => /\ daily_data' = daily_data
            /\ Len(basic_food') = Len(basic_food)
            /\ Len(composite_food') = Len(composite_food)
            /\ Cardinality(RewrittenBasic) + Cardinality(RewrittenComposite) = 1
            /\ \A i \in RewrittenBasic \cup RewrittenComposite :
                  CatalogNames[i + (IF i \in RewrittenBasic THEN 0 ELSE Len(basic_food))]
                    = last'.old
            /\ (Cardinality({i \in DOMAIN CatalogNames : CatalogNames[i] = last'.old}) = 1)
                  => FetchNutrition(basic_food', composite_food', last'.old) = NULL]_vars

\* C30: opening the edit-date form for a date that has a record and saving it
\* without changing a field leaves the record unchanged (same weight, same food
\* entries, same exercise entries), for every stored weight, 0 included.
C30_ReopenAndSaveKeepsRecord ==
    [][\A d \in Dates :
          LET data == load_data_for_date(daily_data, d)
              form == show_date_data_form(data[1], data[2], data[3])
          IN  (/\ FetchDay(daily_data, d) # NULL
               /\ ~form.raised
               /\ nops' = nops + 1
               /\ last'.op = "save_date_data"
               /\ last'.date = d
               /\ last'.text = form.weight_input
               /\ last'.rows = form.food_rows
               /\ last'.exercise_rows = form.exercise_rows)
                => FetchDay(daily_data', d) = FetchDay(daily_data, d)]_vars

====
